---- MODULE Spec2Model ----
(***************************************************************************)
(* goup: inspects Go binaries and reports which ones can be upgraded.      *)
(* The model follows src/main.go: run, controller.doDir, controller.doFile *)
(* with its deferred render, and commandFor.  Strings that the program     *)
(* takes apart (version strings, file paths, import paths) are sequences   *)
(* of tokens, so that parsing, splitting and cleaning are computed.        *)
(***************************************************************************)
EXTENDS Integers, Sequences, FiniteSets, TLC

(***************************************************************************)
(* golang.org/x/mod/semver, as used by doFile.  A version string is a      *)
(* sequence of tokens: "v", numbers, ".", "-", "+", identifiers.           *)
(***************************************************************************)
NumTokens == {"0", "1", "2", "3"}
AlphaTokens == {"alpha", "b1", "beta", "rc"}

\* Byte order of the tokens (ASCII), for Go's string comparison.
TokRank(t) ==
  CASE t = "(devel)" -> 1
    [] t = "+" -> 2
    [] t = "-" -> 3
    [] t = "." -> 4
    [] t = "0" -> 5
    [] t = "1" -> 6
    [] t = "2" -> 7
    [] t = "3" -> 8
    [] t = "alpha" -> 9
    [] t = "b1" -> 10
    [] t = "beta" -> 11
    [] t = "rc" -> 12
    [] t = "v" -> 13
    [] OTHER -> 14

RECURSIVE StrLess(_, _)
\* Go's x < y on strings, token by token.
StrLess(x, y) ==
  IF y = <<>> THEN FALSE
  ELSE IF x = <<>> THEN TRUE
  ELSE IF x[1] # y[1] THEN TokRank(x[1]) < TokRank(y[1])
  ELSE StrLess(Tail(x), Tail(y))

isNum(t) == t \in NumTokens
isIdent(t) == t \in NumTokens \cup AlphaTokens

BadParse ==
  [ok |-> FALSE, major |-> "", minor |-> "", patch |-> "",
   prerelease |-> <<>>, build |-> <<>>]

parseInt(s) ==
  IF s = <<>> \/ ~isNum(s[1])
  THEN [ok |-> FALSE, t |-> "", rest |-> <<>>]
  ELSE [ok |-> TRUE, t |-> s[1], rest |-> Tail(s)]

\* One more token in a well-formed series; -1 stays -1.
plusOne(r) == IF r < 0 THEN -1 ELSE r + 1

RECURSIVE identsLen(_, _)
\* Length of the prefix of s that is ident ("." ident)*, given that an
\* identifier is expected next (want) or a "." or the end may follow; -1 when
\* the series is malformed.  The scan stops at "+" or at the end.
identsLen(s, want) ==
  IF s = <<>> \/ s[1] = "+" THEN (IF want THEN -1 ELSE 0)
  ELSE IF want
       THEN IF isIdent(s[1]) THEN plusOne(identsLen(Tail(s), FALSE)) ELSE -1
       ELSE IF s[1] = "." THEN plusOne(identsLen(Tail(s), TRUE)) ELSE -1

seriesOf(s, n) ==
  IF n < 0
  THEN [ok |-> FALSE, t |-> <<>>, rest |-> <<>>]
  ELSE [ok |-> TRUE, t |-> SubSeq(s, 1, n + 1), rest |-> SubSeq(s, n + 2, Len(s))]

\* parsePrerelease / parseBuild: s starts with the mark ("-" or "+").
parseSeries(s, mark) ==
  IF s = <<>> \/ s[1] # mark
  THEN [ok |-> FALSE, t |-> <<>>, rest |-> <<>>]
  ELSE seriesOf(s, identsLen(Tail(s), TRUE))

\* The end of parse: nothing may follow the build metadata.
parseEnd(major, minor, patch, pre, b) ==
  IF b.ok /\ b.rest = <<>>
  THEN [ok |-> TRUE, major |-> major, minor |-> minor, patch |-> patch,
        prerelease |-> pre, build |-> b.t]
  ELSE BadParse

\* parse, after the prerelease p: the optional build metadata.
parseBuild(major, minor, patch, p) ==
  IF ~p.ok THEN BadParse
  ELSE parseEnd(major, minor, patch, p.t,
                IF p.rest # <<>> /\ p.rest[1] = "+" THEN parseSeries(p.rest, "+")
                ELSE [ok |-> TRUE, t |-> <<>>, rest |-> p.rest])

\* parse, after the patch number: the optional prerelease.
parseTail(major, minor, patch, s) ==
  parseBuild(major, minor, patch,
             IF s # <<>> /\ s[1] = "-" THEN parseSeries(s, "-")
             ELSE [ok |-> TRUE, t |-> <<>>, rest |-> s])

parsePatch(major, minor, n) ==
  IF ~n.ok THEN BadParse ELSE parseTail(major, minor, n.t, n.rest)

parseMinor(major, n) ==
  IF ~n.ok THEN BadParse
  ELSE IF n.rest = <<>>
  THEN [ok |-> TRUE, major |-> major, minor |-> n.t, patch |-> "0",
        prerelease |-> <<>>, build |-> <<>>]
  ELSE IF n.rest[1] # "." THEN BadParse
  ELSE parsePatch(major, n.t, parseInt(Tail(n.rest)))

parseMajor(n) ==
  IF ~n.ok THEN BadParse
  ELSE IF n.rest = <<>>
  THEN [ok |-> TRUE, major |-> n.t, minor |-> "0", patch |-> "0",
        prerelease |-> <<>>, build |-> <<>>]
  ELSE IF n.rest[1] # "." THEN BadParse
  ELSE parseMinor(n.t, parseInt(Tail(n.rest)))

parse(v) ==
  IF v = <<>> \/ v[1] # "v" THEN BadParse ELSE parseMajor(parseInt(Tail(v)))

IsValid(v) == parse(v).ok

prereleaseOf(p) == IF p.ok THEN p.prerelease ELSE <<>>

Prerelease(v) == prereleaseOf(parse(v))

\* compareInt: the numbers have no leading zeros, so length then byte order.
compareInt(x, y) ==
  IF x = y THEN 0 ELSE IF TokRank(x) < TokRank(y) THEN -1 ELSE 1

\* Two different identifiers: a numeric one is lower than an alphanumeric one,
\* two of a kind compare as numbers or as strings.
compareIdent(dx, dy) ==
  IF isNum(dx) # isNum(dy)
  THEN (IF isNum(dx) THEN -1 ELSE 1)
  ELSE (IF TokRank(dx) < TokRank(dy) THEN -1 ELSE 1)

RECURSIVE comparePrereleaseLoop(_, _)
comparePrereleaseLoop(x, y) ==
  IF x = <<>> \/ y = <<>>
  THEN (IF x = <<>> THEN -1 ELSE 1)
  ELSE IF x[2] # y[2]
       THEN compareIdent(x[2], y[2])
       ELSE comparePrereleaseLoop(SubSeq(x, 3, Len(x)), SubSeq(y, 3, Len(y)))

comparePrerelease(x, y) ==
  IF x = y THEN 0
  ELSE IF x = <<>> THEN 1
  ELSE IF y = <<>> THEN -1
  ELSE comparePrereleaseLoop(x, y)

\* The first of the comparisons that is not 0.
firstDiff(a, b, cc, d) ==
  IF a # 0 THEN a ELSE IF b # 0 THEN b ELSE IF cc # 0 THEN cc ELSE d

compareParsed(pv, pw) ==
  IF ~pv.ok /\ ~pw.ok THEN 0
  ELSE IF ~pv.ok THEN -1
  ELSE IF ~pw.ok THEN 1
  ELSE firstDiff(compareInt(pv.major, pw.major), compareInt(pv.minor, pw.minor),
                 compareInt(pv.patch, pw.patch),
                 comparePrerelease(pv.prerelease, pw.prerelease))

Compare(v, w) == compareParsed(parse(v), parse(w))

lessBy(cmp, v, w) == IF cmp # 0 THEN cmp < 0 ELSE StrLess(v, w)

\* ByVersion.Less: Compare, ties broken by the strings themselves.
Less(v, w) == lessBy(Compare(v, w), v, w)

RECURSIVE insertSorted(_, _)
insertSorted(v, list) ==
  IF list = <<>> THEN <<v>>
  ELSE IF Less(v, list[1]) THEN <<v>> \o list
  ELSE <<list[1]>> \o insertSorted(v, Tail(list))

RECURSIVE Sort(_)
\* semver.Sort: Less is a strict total order on distinct strings, so the
\* sorted sequence is unique whatever sort.Sort's order of comparisons.
Sort(list) ==
  IF list = <<>> THEN <<>> ELSE insertSorted(list[1], Sort(Tail(list)))

RECURSIVE Filter(_, _)
\* slices.Filter(versions, func(v) bool { return semver.Prerelease(v) == "" })
Filter(list, keepAll) ==
  IF list = <<>> THEN <<>>
  ELSE IF keepAll \/ Prerelease(list[1]) = <<>>
       THEN <<list[1]>> \o Filter(Tail(list), keepAll)
       ELSE Filter(Tail(list), keepAll)

V100 == <<"v", "1", ".", "0", ".", "0">>
V120 == <<"v", "1", ".", "2", ".", "0">>
V110beta == <<"v", "1", ".", "1", ".", "0", "-", "beta">>
Devel == <<"(devel)">>
NoVersion == <<>>

(***************************************************************************)
(* path/filepath and path, as used by doDir and commandFor.  A path is a   *)
(* sequence of tokens: "/" and the names between the separators.           *)
(***************************************************************************)
RECURSIVE lastSlash(_, _)
\* strings.LastIndex(path, "/"), 0 when there is none.
lastSlash(p, i) ==
  IF i = 0 THEN 0 ELSE IF p[i] = "/" THEN i ELSE lastSlash(p, i - 1)

splitAt(p, i) == [dir |-> SubSeq(p, 1, i), file |-> SubSeq(p, i + 1, Len(p))]

\* filepath.Split: the directory keeps its final separator.
Split(p) == splitAt(p, lastSlash(p, Len(p)))

RECURSIVE cleanElems(_, _, _)
\* The elements Clean keeps: no empty and no "." element, ".." cancels the
\* element before it, and ".." at the start of a rooted path is dropped.
cleanElems(p, rooted, kept) ==
  IF p = <<>> THEN kept
  ELSE IF p[1] = "/" \/ p[1] = "." THEN cleanElems(Tail(p), rooted, kept)
  ELSE IF p[1] = ".."
       THEN IF kept # <<>> /\ kept[Len(kept)] # ".."
            THEN cleanElems(Tail(p), rooted, SubSeq(kept, 1, Len(kept) - 1))
            ELSE IF rooted THEN cleanElems(Tail(p), rooted, kept)
            ELSE cleanElems(Tail(p), rooted, Append(kept, ".."))
  ELSE cleanElems(Tail(p), rooted, Append(kept, p[1]))

RECURSIVE joinElems(_)
joinElems(e) ==
  IF e = <<>> THEN <<>>
  ELSE IF Len(e) = 1 THEN e
  ELSE <<e[1], "/">> \o joinElems(Tail(e))

cleaned(rooted, e) ==
  IF rooted THEN <<"/">> \o joinElems(e)
  ELSE IF e = <<>> THEN <<".">> ELSE joinElems(e)

\* filepath.Clean
Clean(p) ==
  IF p = <<>> THEN <<".">>
  ELSE cleaned(p[1] = "/", cleanElems(p, p[1] = "/", <<>>))

\* filepath.Join of two elements: empty elements are ignored, the rest is
\* joined by a separator and cleaned; all empty gives the empty string.
Join(a, b) ==
  IF a = <<>> /\ b = <<>> THEN <<>>
  ELSE IF a = <<>> THEN Clean(b)
  ELSE IF b = <<>> THEN Clean(a)
  ELSE Clean(a \o <<"/">> \o b)

RECURSIVE stripSlashes(_)
stripSlashes(p) ==
  IF p # <<>> /\ p[Len(p)] = "/" THEN stripSlashes(SubSeq(p, 1, Len(p) - 1)) ELSE p

baseOf(q) == IF q = <<>> THEN <<"/">> ELSE Split(q).file

\* path.Base
Base(p) == IF p = <<>> THEN <<".">> ELSE baseOf(stripSlashes(p))

(***************************************************************************)
(* The program state.                                                      *)
(***************************************************************************)
VARIABLES
  c,           \* the controller's flags: all, emitCmd, emitJSON, pre, showErrs
  env,         \* GOBIN, GOPATH, HOME, TMPDIR
  pc,          \* where run is
  runErr,      \* the error run returns: "" or its kind
  nargs,       \* len(flag.Args())
  argi,        \* arguments taken by run's loop so far (each is stat-ed)
  dir,         \* doDir's directory
  entries,     \* what os.ReadDir returned to doDir
  enti,        \* entries doDir's loop has taken so far
  inDir,       \* doFile was called by doDir
  file,        \* doFile's file
  info,        \* what buildinfo.ReadFile returned
  listed,      \* what client.List returned (doFile's versions, until it returns)
  o,           \* doFile's output value (the Result)
  err,         \* doFile's named result
  out,         \* what the deferred render wrote for o
  tokens,      \* the limiter's bucket, in 1/Interval of a token
  gap,         \* ticks since the last query (capped at Interval)
  lastGap,     \* the gap at which the last query was let through
  elapsed,     \* ticks since the first query
  nQueries,    \* registry queries let through by the limiter
  nCalls,      \* calls of doFile for the current argument
  nRead,       \* calls of buildinfo.ReadFile for the current argument
  nRendered    \* runs of doFile's deferred render for the current argument

vars ==
  <<c, env, pc, runErr, nargs, argi, dir, entries, enti, inDir, file, info, listed, o, err, out, tokens, gap, lastGap, elapsed, nQueries,
    nCalls, nRead, nRendered>>

\* Bounds of the model.
MaxArgs == 1
MaxVersions == 2
MaxTime == 5
\* Ticks of the model's clock per token of the limiter (1/R seconds).
Interval == 2
\* rate.NewLimiter(rate.Limit(qps), 1)
Burst == 1

Min(a, b) == IF a < b THEN a ELSE b

(***************************************************************************)
(* commandFor                                                              *)
(***************************************************************************)
NoCommand ==
  [form |-> "", gobin |-> <<>>, pkg |-> <<>>, ver |-> <<>>,
   mvFrom |-> <<>>, mvTo |-> <<>>]

\* A variant of gobinOf that looks at GOPATH before GOBIN.
gobinOfGopathFirst(e) ==
  IF e.GOPATH # <<>> THEN Join(e.GOPATH, <<"bin">>)
  ELSE IF e.GOBIN # <<>> THEN e.GOBIN
  ELSE Join(Join(e.HOME, <<"go">>), <<"bin">>)

\* gobin as commandFor resolves it: GOBIN, else GOPATH/bin, else HOME/go/bin.
gobinOf(e) ==
  IF e.GOBIN # <<>> THEN e.GOBIN
  ELSE Join(IF e.GOPATH # <<>> THEN e.GOPATH ELSE Join(e.HOME, <<"go">>), <<"bin">>)

\* os.TempDir(): $TMPDIR, else /tmp.
TempDir(e) == IF e.TMPDIR # <<>> THEN e.TMPDIR ELSE <<"/", "tmp">>

\* Lines 215-225, the three Sprintf forms: "go install P@V",
\* "GOBIN=D go install P@V" and "GOBIN=T go install P@V && mv T/B DEST".
commandOf(pkg, ver, dest, destdir, destfile, pkgbase, gobin, tmpdir) ==
  IF destdir = gobin /\ destfile = pkgbase
  THEN [NoCommand EXCEPT !.form = "install", !.pkg = pkg, !.ver = ver]
  ELSE IF destfile = pkgbase
  THEN [NoCommand EXCEPT !.form = "gobin", !.gobin = destdir, !.pkg = pkg,
                         !.ver = ver]
  ELSE [NoCommand EXCEPT !.form = "gobin-mv", !.gobin = tmpdir, !.pkg = pkg,
                         !.ver = ver, !.mvFrom = Join(tmpdir, pkgbase),
                         !.mvTo = dest]

commandFor(pkg, ver, dest) ==
  commandOf(pkg, ver, dest, Clean(Split(dest).dir), Split(dest).file, Base(pkg),
            gobinOf(env), TempDir(env))

(***************************************************************************)
(* doFile's output value and its deferred render                           *)
(***************************************************************************)
NoOutput ==
  [File |-> <<>>, Installed |-> <<>>, Available |-> <<>>, MainModule |-> <<>>,
   MainPackage |-> <<>>, Command |-> NoCommand, Error |-> ""]

NoInfo == [MainVersion |-> <<>>, MainPath |-> <<>>, Path |-> <<>>]

\* A variant of Suppressed that lets equal versions through.
SuppressedUnlessNewer(cc, r) ==
  (~cc.all \/ cc.emitCmd)
  /\ (\/ ~IsValid(r.Installed)
      \/ ~IsValid(r.Available)
      \/ Compare(r.Installed, r.Available) > 0)

\* A variant of Suppressed that drops a Result with no available version
\* whatever the flags.
SuppressedNoVersion(cc, r) ==
  \/ r.Available = <<>>
  \/ (~cc.all \/ cc.emitCmd)
     /\ (\/ ~IsValid(r.Installed)
         \/ ~IsValid(r.Available)
         \/ Compare(r.Installed, r.Available) >= 0)

\* Lines 135-142: the upgrade filter.
Suppressed(cc, r) ==
  (~cc.all \/ cc.emitCmd)
  /\ (\/ ~IsValid(r.Installed)
      \/ ~IsValid(r.Available)
      \/ Compare(r.Installed, r.Available) >= 0)

\* What the deferred function writes for r: the stream, the form, and the
\* fields of r that appear in the text (an empty field is left out of a
\* plain line; the JSON object carries every field, error only if non-empty).
Render(cc, r) ==
  IF ~cc.showErrs /\ r.Error # ""
  THEN [stream |-> "none", form |-> "", rec |-> NoOutput]
  ELSE IF ~cc.emitJSON /\ r.Error # ""
  THEN [stream |-> "stderr", form |-> "error",
        rec |-> [NoOutput EXCEPT !.File = r.File, !.Error = r.Error]]
  ELSE IF Suppressed(cc, r)
  THEN [stream |-> "none", form |-> "", rec |-> NoOutput]
  ELSE IF cc.emitJSON
  THEN [stream |-> "stdout", form |-> "json", rec |-> r]
  ELSE IF cc.emitCmd
  THEN [stream |-> "stdout", form |-> "cmd",
        rec |-> [NoOutput EXCEPT !.Command = r.Command]]
  ELSE [stream |-> "stdout", form |-> "plain",
        rec |-> [NoOutput EXCEPT !.File = r.File, !.MainPackage = r.MainPackage,
                                 !.Installed = r.Installed,
                                 !.Available = r.Available]]

Pending == [stream |-> "pending", form |-> "", rec |-> NoOutput, werr |-> FALSE]

\* Lines 194-195.
withAvailable(r, v, dest) ==
  [r EXCEPT !.Available = v, !.Command = commandFor(r.MainPackage, v, dest)]

\* A variant of takeLast that takes the first element.
takeFirst(r, vs, dest) ==
  IF Len(vs) > 0 THEN withAvailable(r, vs[1], dest) ELSE r

\* Lines 192-196: the last element of the sorted list, if any.
takeLast(r, vs, dest) ==
  IF Len(vs) > 0 THEN withAvailable(r, vs[Len(vs)], dest) ELSE r

\* Lines 186-196: the prerelease filter, the sort, the last element.
Resolve(r, versions, pre, dest) == takeLast(r, Sort(Filter(versions, pre)), dest)

(***************************************************************************)
(* The inputs the model draws from.                                        *)
(***************************************************************************)
Flags ==
  [all : BOOLEAN, emitCmd : BOOLEAN, emitJSON : BOOLEAN, pre : BOOLEAN,
   showErrs : BOOLEAN]

GoBinDir == <<"/", "home", "/", "u", "/", "go", "/", "bin">>
LocalBinDir == <<"/", "usr", "/", "local", "/", "bin">>
HomeDir == <<"/", "home", "/", "u">>

EnvHome == [GOBIN |-> <<>>, GOPATH |-> <<>>, HOME |-> HomeDir, TMPDIR |-> <<>>]
EnvGobin ==
  [GOBIN |-> LocalBinDir, GOPATH |-> <<"/", "gp">>, HOME |-> HomeDir,
   TMPDIR |-> <<>>]
\* GOBIN names /usr/local/bin with a final separator.
EnvGobinSlash ==
  [GOBIN |-> LocalBinDir \o <<"/">>, GOPATH |-> <<>>, HOME |-> HomeDir,
   TMPDIR |-> <<>>]
EnvGopath ==
  [GOBIN |-> <<>>, GOPATH |-> <<"/", "home", "/", "u", "/", "go", "/">>,
   HOME |-> <<"/", "root">>, TMPDIR |-> <<"/", "var", "/", "tmp">>]
\* HOME unset: os.UserHomeDir fails and commandFor goes on with "".
EnvBare == [GOBIN |-> <<>>, GOPATH |-> <<>>, HOME |-> <<>>, TMPDIR |-> <<>>]

Envs == {EnvHome, EnvGobin, EnvGobinSlash, EnvGopath, EnvBare}
RunEnvs == {EnvHome}

FileArgs == {GoBinDir \o <<"/", "tool">>, <<"mytool">>}
DirArgs == {GoBinDir, LocalBinDir \o <<"/">>}

\* os.ReadDir returns the entries sorted by name; "sub" is a subdirectory.
EntryNames == <<"mytool", "sub", "tool">>
IsSubdir(p) == Base(p) = <<"sub">>

withOrWithout(name, rest) == rest \cup {<<name>> \o r : r \in rest}

RECURSIVE SubSeqs(_)
SubSeqs(names) ==
  IF names = <<>> THEN {<<>>} ELSE withOrWithout(names[1], SubSeqs(Tail(names)))

EntryLists == SubSeqs(EntryNames)

ModTool == <<"example.com", "/", "tool">>
PkgTool == <<"example.com", "/", "tool", "/", "cmd", "/", "tool">>
PkgOther == <<"example.com", "/", "other">>

BuildInfos ==
  {[MainVersion |-> v, MainPath |-> ModTool, Path |-> PkgTool] :
     v \in {V100, V120, Devel, NoVersion}}

oneLonger(S, n, shorter) ==
  shorter \cup {<<v>> \o l : v \in S, l \in {k \in shorter : Len(k) = n - 1}}

RECURSIVE ListsOf(_, _)
ListsOf(S, n) == IF n = 0 THEN {<<>>} ELSE oneLonger(S, n, ListsOf(S, n - 1))

RunVersions == {V100, V120, V110beta}
VersionLists == ListsOf(RunVersions, MaxVersions)

(***************************************************************************)
(* run                                                                     *)
(***************************************************************************)
\* Nothing has run yet; the limiter is new.
Idle ==
  /\ runErr = ""
  /\ argi = 0
  /\ dir = <<>>
  /\ entries = <<>>
  /\ enti = 0
  /\ inDir = FALSE
  /\ info = NoInfo
  /\ listed = <<>>
  /\ err = ""
  /\ out = Pending
  /\ tokens = Burst * Interval
  /\ gap = 0
  /\ lastGap = 0
  /\ elapsed = 0
  /\ nQueries = 0
  /\ nCalls = 0
  /\ nRead = 0
  /\ nRendered = 0

Init ==
  /\ c \in Flags
  /\ env \in RunEnvs
  /\ nargs \in 0..MaxArgs
  /\ pc = "flags"
  /\ file = <<>>
  /\ o = NoOutput
  /\ Idle

limiterVars == <<tokens, gap, lastGap, elapsed, nQueries>>
dirVars == <<dir, entries, enti>>
fileVars == <<file, info, listed, o, err, out, inDir>>
countVars == <<nCalls, nRead, nRendered>>

\* A variant of BadFlags without the second check.
BadFlagsAllCmdOnly(cc) == cc.all /\ cc.emitCmd

\* Lines 54-59.
BadFlags(cc) == (cc.all /\ cc.emitCmd) \/ (cc.emitCmd /\ cc.emitJSON)

ValidateFlags ==
  /\ pc = "flags"
  /\ IF BadFlags(c)
     THEN pc' = "failed" /\ runErr' = "flags"
     ELSE pc' = "args" /\ runErr' = runErr
  /\ UNCHANGED <<c, env, nargs, argi, dirVars, fileVars, countVars, limiterVars>>

\* The start of doFile (lines 122-125), in the caller's step.
CallDoFile(p, fromDir) ==
  /\ file' = p
  /\ o' = [NoOutput EXCEPT !.File = p]
  /\ err' = ""
  /\ out' = Pending
  /\ inDir' = fromDir
  /\ info' = NoInfo
  /\ listed' = <<>>
  /\ pc' = "ReadFile"

\* Lines 76-89: one round of run's loop: os.Stat fails, or the argument is a
\* directory (doDir is entered), or it is handed to doFile.
StatArg ==
  /\ pc = "args"
  /\ argi < nargs
  /\ argi' = argi + 1
  /\ nRead' = 0
  /\ nRendered' = 0
  /\ \/ /\ pc' = "failed"
        /\ runErr' = "stat"
        /\ nCalls' = 0
        /\ UNCHANGED <<dirVars, fileVars>>
     \/ /\ \E d \in DirArgs : dir' = d
        /\ pc' = "ReadDir"
        /\ nCalls' = 0
        /\ UNCHANGED <<runErr, entries, enti, fileVars>>
     \/ /\ \E p \in FileArgs : CallDoFile(p, FALSE)
        /\ nCalls' = 1
        /\ UNCHANGED <<runErr, dirVars>>
  /\ UNCHANGED <<c, env, nargs, limiterVars>>

\* Line 91.
RunReturn ==
  /\ pc = "args"
  /\ argi = nargs
  /\ pc' = "done"
  /\ UNCHANGED <<c, env, runErr, nargs, argi, dirVars, fileVars, countVars,
                 limiterVars>>

\* Lines 100-103.
ReadDir ==
  /\ pc = "ReadDir"
  /\ \/ /\ pc' = "failed"
        /\ runErr' = "readdir"
        /\ UNCHANGED <<entries, enti>>
     \/ /\ \E es \in EntryLists : entries' = es
        /\ enti' = 0
        /\ pc' = "entries"
        /\ runErr' = runErr
  /\ UNCHANGED <<c, env, nargs, argi, dir, fileVars, countVars, limiterVars>>

\* A variant of EntryPath that passes the bare entry name.
EntryPathNameOnly(d, name) == <<name>>

\* Line 105: filepath.Join(dir, entry.Name())
EntryPath(d, name) == Join(d, <<name>>)

\* Lines 104-105: the next entry goes to doFile.
DoDirNext ==
  /\ pc = "entries"
  /\ enti < Len(entries)
  /\ enti' = enti + 1
  /\ CallDoFile(EntryPath(dir, entries[enti + 1]), TRUE)
  /\ nCalls' = nCalls + 1
  /\ UNCHANGED <<c, env, runErr, nargs, argi, dir, entries, nRead, nRendered,
                 limiterVars>>

\* Line 109, and run's continue: doDir's locals are gone.
DoDirReturn ==
  /\ pc = "entries"
  /\ enti = Len(entries)
  /\ pc' = "args"
  /\ dir' = <<>>
  /\ entries' = <<>>
  /\ enti' = 0
  /\ UNCHANGED <<c, env, runErr, nargs, argi, fileVars, countVars, limiterVars>>

(***************************************************************************)
(* doFile                                                                  *)
(***************************************************************************)
\* Lines 167-171.
ReadFailed(r) == [r EXCEPT !.Error = "reading"]

\* Lines 173-175.
ReadOK(r, i) ==
  [r EXCEPT !.Installed = i.MainVersion, !.MainModule = i.MainPath,
            !.MainPackage = i.Path]

\* Lines 166-175.
DoFileRead ==
  /\ pc = "ReadFile"
  /\ nRead' = nRead + 1
  /\ \/ /\ o' = ReadFailed(o)
        /\ pc' = "render"
        /\ info' = NoInfo
     \/ /\ ~IsSubdir(file)
        /\ \E i \in BuildInfos :
             /\ info' = i
             /\ o' = ReadOK(o, i)
        /\ pc' = "List"
  /\ UNCHANGED <<c, env, runErr, nargs, argi, dirVars, file, listed, err, out,
                 inDir, nCalls, nRendered, limiterVars>>

\* A variant of TokenAvailable that accepts a partial token.
TokenAvailablePartial(t) == t >= 1

\* The limiter lets a request through when the bucket holds a whole token.
TokenAvailable(t) == t >= Interval

\* The bucket refills by 1/Interval of a token per tick, up to Burst tokens.
Refill(t) == Min(Burst * Interval, t + 1)

\* Time passes.  The clock is read where doFile asks the limiter: the ticks
\* since the previous request are counted there, wherever the program spent
\* them.  Before the first query the bucket is full and stays so.
Tick ==
  /\ pc = "List"
  /\ nQueries > 0
  /\ elapsed < MaxTime
  /\ elapsed' = elapsed + 1
  /\ tokens' = Refill(tokens)
  /\ gap' = Min(Interval, gap + 1)
  /\ UNCHANGED <<c, env, pc, runErr, nargs, argi, dirVars, fileVars, countVars,
                 lastGap, nQueries>>

\* A variant of ListFailed for a doFile that fills in the metadata only after
\* the registry call.
ListFailedBare(r) ==
  [r EXCEPT !.Error = "listing", !.Installed = <<>>, !.MainModule = <<>>,
            !.MainPackage = <<>>]

\* Lines 180-184.
ListFailed(r) == [r EXCEPT !.Error = "listing"]

\* Lines 179-196: client.List through the limited transport, then the
\* prerelease filter, the sort and commandFor.
DoFileList ==
  /\ pc = "List"
  /\ TokenAvailable(tokens)
  /\ tokens' = tokens - Interval
  /\ nQueries' = nQueries + 1
  /\ lastGap' = gap
  /\ gap' = 0
  /\ elapsed' = elapsed
  /\ \/ /\ o' = ListFailed(o)
        /\ listed' = <<>>
     \/ \E vs \in VersionLists :
          /\ listed' = vs
          /\ o' = Resolve(o, vs, c.pre, file)
  /\ pc' = "render"
  /\ UNCHANGED <<c, env, runErr, nargs, argi, dirVars, file, info, err, out,
                 inDir, nCalls, nRead, nRendered>>

\* A variant of ReturnValue that returns a per-file error to the caller.
ReturnValueFileError(r, encodeFailed) ==
  IF encodeFailed THEN "encode" ELSE IF r.Error # "" THEN "file" ELSE ""

\* doFile's result: nil at lines 170, 183 and 198, then what the deferred
\* function assigns at line 146.
ReturnValue(r, encodeFailed) == IF encodeFailed THEN "encode" ELSE ""

\* Line 146 (only enc.Encode's error is kept) and the return to the caller.
Write(w) ==
  \E failed \in (IF w.form = "json" THEN BOOLEAN ELSE {FALSE}) :
     /\ out' = [stream |-> w.stream, form |-> w.form, rec |-> w.rec,
                werr |-> failed]
     /\ err' = ReturnValue(o, failed)
     /\ IF ReturnValue(o, failed) # ""
        THEN pc' = "failed" /\ runErr' = ReturnValue(o, failed)
        ELSE pc' = (IF inDir THEN "entries" ELSE "args") /\ runErr' = runErr

\* Lines 127-164 and the return to the caller: the deferred render; in JSON
\* mode enc.Encode may fail, and its error becomes doFile's result, which
\* doDir and run wrap and return.
DoFileRender ==
  /\ pc = "render"
  /\ nRendered' = nRendered + 1
  /\ Write(Render(c, o))
  /\ listed' = <<>>
  /\ UNCHANGED <<c, env, nargs, argi, dirVars, file, info, o, inDir, nCalls,
                 nRead, limiterVars>>

Next ==
  \/ ValidateFlags
  \/ StatArg
  \/ RunReturn
  \/ ReadDir
  \/ DoDirNext
  \/ DoDirReturn
  \/ DoFileRead
  \/ Tick
  \/ DoFileList
  \/ DoFileRender

Spec == Init /\ [][Next]_vars

(***************************************************************************)
(* commandFor on its own: the inputs are drawn from CmdDests, CmdPkgs,     *)
(* CmdVersions and Envs, and one step applies the function.                *)
(***************************************************************************)
CmdDests ==
  {GoBinDir \o <<"/", "tool">>,
   GoBinDir \o <<"/", "mytool">>,
   LocalBinDir \o <<"/", "tool">>,
   LocalBinDir \o <<"/", "/", "other">>,
   <<"go", "/", "bin", "/", "tool">>,
   <<".", "/", "tool">>,
   <<"mytool">>}
CmdPkgs == {PkgTool, ModTool, PkgOther}
CmdVersions == {V120, V110beta}
DefaultFlags ==
  [all |-> FALSE, emitCmd |-> FALSE, emitJSON |-> FALSE, pre |-> TRUE,
   showErrs |-> TRUE]

InitCmd ==
  /\ c = DefaultFlags
  /\ env \in Envs
  /\ nargs = 0
  /\ pc = "commandFor"
  /\ file \in CmdDests
  /\ \E p \in CmdPkgs, v \in CmdVersions :
       o = [NoOutput EXCEPT !.File = file, !.MainPackage = p, !.Available = v]
  /\ Idle

\* Line 195.
ApplyCommandFor ==
  /\ pc = "commandFor"
  /\ o' = [o EXCEPT !.Command = commandFor(o.MainPackage, o.Available, file)]
  /\ pc' = "commandFor.done"
  /\ UNCHANGED <<c, env, runErr, nargs, argi, dirVars, file, info, listed, err,
                 out, inDir, countVars, limiterVars>>

NextCmd == ApplyCommandFor

SpecCmd == InitCmd /\ [][NextCmd]_vars

(***************************************************************************)
(* The earlier doFile (src/unnamed/part_000), which prints one of three    *)
(* lines for a binary whose metadata and version list were read.           *)
(***************************************************************************)
legacyLine(installed, vs) ==
  IF Len(vs) = 0 THEN "no versions found"
  ELSE IF Compare(installed, vs[Len(vs)]) < 0 THEN "can be updated"
  ELSE "no update needed"

legacyDoFile(i, versions) == legacyLine(i.MainVersion, Sort(versions))

(***************************************************************************)
(* Properties                                                              *)
(***************************************************************************)
\* The deferred render has run for o.
Decided == out.stream # "pending"
\* It wrote o to a stream.
Emitted == out.stream \in {"stdout", "stderr"}
Range(l) == {l[i] : i \in DOMAIN l}
\* installed < available, both valid semantic versions.
Upgradeable(r) ==
  IsValid(r.Installed) /\ IsValid(r.Available) /\ Compare(r.Installed, r.Available) < 0

\* C1: a Result with a non-empty error is emitted exactly when showErrs is
\* set, in every output mode and whatever showAll is; in JSON mode it is
\* written as a JSON object that carries the error.
C1_ErrorsNeverFiltered ==
  Decided /\ o.Error # "" =>
    /\ Emitted <=> c.showErrs
    /\ c.showErrs /\ c.emitJSON => out.form = "json" /\ out.rec.Error = o.Error

\* C2 as stated: whenever the error is non-empty, installedVersion,
\* availableVersion and command are all empty.
C2_ErrorLeavesAllEmpty ==
  o.Error # "" =>
    o.Installed = <<>> /\ o.Available = <<>> /\ o.Command = NoCommand

\* C2 as amended: the error is non-empty only after a failed extraction or a
\* failed List; then availableVersion and command are empty; installedVersion
\* (with mainModule and mainPackage) is empty after a failed extraction and is
\* the binary's embedded metadata after a failed List.
C2_ErrorFields ==
  /\ o.Error \in {"", "reading", "listing"}
  /\ o.Error # "" => o.Available = <<>> /\ o.Command = NoCommand
  /\ o.Error = "reading" =>
       /\ info = NoInfo
       /\ o.Installed = <<>> /\ o.MainModule = <<>> /\ o.MainPackage = <<>>
  /\ o.Error = "listing" =>
       /\ info \in BuildInfos
       /\ listed = <<>>
       /\ o.Installed = info.MainVersion
       /\ o.MainModule = info.MainPath
       /\ o.MainPackage = info.Path

C2_Witness ==
  Decided /\ o.Error = "listing" /\ o.Installed = V100 /\ o.Available = <<>>

\* C3: with showAll off, a Result without error is emitted iff installed and
\* available are valid semantic versions and installed < available; with
\* showAll on, every Result without error is emitted.
C3_SuppressionFilter ==
  Decided /\ o.Error = "" =>
    /\ Emitted <=> (c.all \/ Upgradeable(o))
    /\ ~c.all /\ o.Installed = V100 /\ o.Available = V100 => ~Emitted
    /\ o.Installed = V100 /\ o.Available = V120 => Emitted
    /\ ~c.all /\ o.Installed \in {Devel, NoVersion} => ~Emitted
    /\ Emitted => out.stream = "stdout" /\ out.rec.Error = ""

C3_Witness ==
  /\ Decided /\ o.Error = "" /\ ~c.all
  /\ o.Installed = V100 /\ o.Available = V120
  /\ out.form = "plain" /\ out.rec.Available = V120

\* C4 as stated: run fails only for an invalid flag combination, a failed
\* stat or a failed directory listing, and doFile never returns an error.
C4_OnlyRunLevelFailures ==
  runErr \in {"", "flags", "stat", "readdir"} /\ err = ""

\* C4 as amended: run fails only for an invalid flag combination, a failed
\* stat, a failed directory listing, or a failed write of a Result in JSON
\* mode; doFile returns an error only for that failed write; a failed
\* extraction or a failed List never makes doFile return an error.
C4_RunFailures ==
  /\ runErr \in {"", "flags", "stat", "readdir", "encode"}
  /\ (pc = "failed") <=> (runErr # "")
  /\ err \in {"", "encode"}
  /\ err = "encode" => c.emitJSON /\ out.form = "json" /\ out.werr /\ pc = "failed"
  /\ runErr = "encode" <=> err = "encode"
  /\ Decided /\ ~out.werr => err = ""
  /\ Decided /\ ~out.werr /\ pc = "failed" => runErr \in {"stat", "readdir"}

C4_Witness ==
  /\ Decided /\ o.Error = "reading" /\ err = ""
  /\ pc = "entries" /\ enti < Len(entries)

\* The sequential part of C5: one candidate at a time, each read once and
\* rendered once before the next is read; a directory's candidates are its
\* own entries, in the order of the listing; an unrecognized binary still
\* yields a Result, with the error set.
C5_OneAtATime ==
  /\ nRendered <= nRead /\ nRead <= nCalls /\ nCalls <= nRendered + 1
  /\ pc = "ReadFile" => nRead = nCalls - 1
  /\ pc \in {"List", "render"} => nRead = nCalls /\ nRendered = nCalls - 1
  /\ pc = "entries" => nRendered = nCalls /\ nCalls = enti
  /\ dir # <<>> /\ pc \in {"ReadFile", "List", "render"} =>
       /\ nCalls = enti
       /\ file = Join(dir, <<entries[enti]>>)
       /\ o.File = file
  /\ pc = "entries" /\ enti = Len(entries) => nRendered = Len(entries)
  /\ Decided /\ info = NoInfo => o.Error = "reading"

\* C5 as stated: the above, and a directory that was listed yields its k
\* Results and the run does not fail in it.
C5_DirectoryNeverFails ==
  /\ C5_OneAtATime
  /\ pc = "failed" /\ dir # <<>> => runErr = "readdir"

\* C5 as amended: the above, and a directory that was listed yields its k
\* Results and the run ends with exit code 0 unless the write of a Result
\* fails in JSON mode; the run then stops at that Result.
C5_Sequential ==
  /\ C5_OneAtATime
  /\ pc = "done" => runErr = ""
  /\ pc = "failed" /\ dir # <<>> /\ runErr # "readdir" =>
       /\ runErr = "encode" /\ c.emitJSON /\ out.werr
       /\ nRendered = enti

C5_Witness ==
  /\ pc = "entries" /\ Len(entries) = 3 /\ enti = 3 /\ nRendered = 3
  /\ o.Error = "" /\ runErr = ""

\* C6: all+cmd and cmd+json fail run before anything is stat-ed, read,
\* queried or rendered; every other combination passes.
C6_FlagsFirst ==
  /\ pc # "flags" =>
       (runErr = "flags") <=> ((c.all /\ c.emitCmd) \/ (c.emitCmd /\ c.emitJSON))
  /\ runErr = "flags" => pc = "failed"
  /\ (c.all /\ c.emitCmd) \/ (c.emitCmd /\ c.emitJSON) =>
       /\ argi = 0 /\ nCalls = 0 /\ nRead = 0 /\ nQueries = 0 /\ nRendered = 0
       /\ out = Pending /\ pc \in {"flags", "failed"}

C6_Witness ==
  pc = "failed" /\ runErr = "flags" /\ c.emitCmd /\ c.emitJSON /\ ~c.all

\* The registry's list without the versions that carry a prerelease tag,
\* unless prereleases are included.
FilteredVersions(l, pre) == {v \in Range(l) : pre \/ Prerelease(v) = <<>>}

\* C7: for a Result without error, availableVersion is present exactly when
\* the filtered list is non-empty, and is then a maximum of the filtered list
\* under semantic-version comparison; command is set only with it.
C7_AvailableIsMax ==
  pc = "render" /\ o.Error = "" =>
    /\ o.Available # <<>> <=> FilteredVersions(listed, c.pre) # {}
    /\ o.Available # <<>> =>
         /\ o.Available \in FilteredVersions(listed, c.pre)
         /\ \A w \in FilteredVersions(listed, c.pre) : Compare(w, o.Available) <= 0
    /\ o.Command # NoCommand => o.Available # <<>> /\ o.Command.ver = o.Available
    /\ Range(listed) = {V100, V110beta} =>
         o.Available = (IF c.pre THEN V110beta ELSE V100)

C7_Witness ==
  /\ pc = "render" /\ o.Error = "" /\ ~c.pre
  /\ listed = <<V110beta, V100>> /\ o.Available = V100

\* What the render wrote, without the outcome of the write.
Written == [stream |-> out.stream, form |-> out.form, rec |-> out.rec]
\* o is the Result of a binary whose module has no version to offer.
NoVersionsResult == Decided /\ o.Error = "" /\ info # NoInfo /\ o.Available = <<>>

\* C8 as stated: what is rendered for a file with no known versions differs
\* from what is rendered for the same file when its module is up to date,
\* whatever the output mode and showAll.
C8_AlwaysDistinct ==
  NoVersionsResult =>
    \A v \in RunVersions :
      Compare(o.Installed, v) >= 0 => Render(c, withAvailable(o, v, file)) # Written

\* C8 as amended: an empty (filtered) list is no error: availableVersion and
\* command stay empty and the run goes on; the Result is rendered only with
\* showAll, and then differently from the up-to-date Result; without showAll
\* (shellCommand mode included) nothing is written for either.  The earlier
\* doFile printed a line of its own for an empty list.
C8_EmptyList ==
  /\ pc = "render" /\ o.Error = "" /\ FilteredVersions(listed, c.pre) = {} =>
       o.Available = <<>> /\ o.Command = NoCommand
  /\ pc = "render" /\ o.Error = "" /\ listed = <<>> =>
       /\ legacyDoFile(info, listed) = "no versions found"
       /\ \A l \in VersionLists \ {<<>>} :
            legacyDoFile(info, l) # legacyDoFile(info, listed)
  /\ NoVersionsResult =>
       /\ Emitted <=> c.all
       /\ ~out.werr => err = "" /\ runErr # "encode"
       /\ \A v \in RunVersions :
            Compare(o.Installed, v) >= 0 =>
              (Render(c, withAvailable(o, v, file)) # Written <=> c.all)

C8_Witness ==
  /\ NoVersionsResult /\ c.all /\ out.form = "plain"
  /\ o.Installed = V100 /\ out.rec.Available = <<>>

\* The default install directory: GOBIN, else GOPATH/bin, else HOME/go/bin.
DefaultInstallDir(e) ==
  IF e.GOBIN # <<>> THEN e.GOBIN
  ELSE IF e.GOPATH # <<>> THEN Clean(e.GOPATH \o <<"/", "bin">>)
  ELSE IF e.HOME # <<>> THEN Clean(e.HOME \o <<"/", "go", "/", "bin">>)
  ELSE <<"go", "/", "bin">>
\* A destination is a file name after a directory (or after nothing).
DestFile(dest) == <<dest[Len(dest)]>>
DestDir(dest) == Clean(SubSeq(dest, 1, Len(dest) - 1))
LastSegment(pkg) == <<pkg[Len(pkg)]>>
\* Where "go install" leaves the binary: in GOBIN, under the last segment of
\* the package path.
Installed(cmd, e) ==
  Join(IF cmd.form = "install" THEN DefaultInstallDir(e) ELSE cmd.gobin,
       LastSegment(cmd.pkg))

C10_RateLimit ==
  /\ tokens >= 0 /\ tokens <= Burst * Interval
  /\ nQueries >= 1 => tokens = gap
  /\ nQueries >= 2 => lastGap >= Interval
  /\ nQueries >= 1 => elapsed >= (nQueries - 1) * Interval

C10_Witness == nQueries = 2 /\ elapsed = Interval /\ pc = "render"

====
